---------------------------- MODULE Spec2Model ----------------------------
(***************************************************************************)
(* Persistence and query layer of the study-progress dashboard             *)
(* (Phase3/src/repositories.py, db_protocol.py, validation.py).            *)
(*                                                                         *)
(* The store is the four tables student, studiengang, modul and            *)
(* modul_belegung plus the connection's last_insert_rowid.  Every          *)
(* repository method is one action; what it returned, what it raised and   *)
(* the statements/commits it issued are kept in call, ret, exc and log.    *)
(*                                                                         *)
(* Encodings                                                               *)
(*   Optional value : None = <<>>, Some(x) = <<x>>  (Python None, SQL NULL)*)
(*   date           : [year, month, day]                                   *)
(*   TEXT date      : sequence of character codes "YYYY-MM-DD"             *)
(*   grade (float)  : integer number of tenths (13 is 1.3)                 *)
(*   input text     : sequence of character codes                          *)
(*   parsed float   : Num(m, f) = m / 10^f, Inf(neg), NaN                  *)
(***************************************************************************)
EXTENDS Integers, Sequences, FiniteSets, TLC

VARIABLES student, studiengang, modul, modul_belegung,
          last_insert_rowid, belegung_seq,
          call, ret, exc, log

tables == <<student, studiengang, modul, modul_belegung>>
vars == <<student, studiengang, modul, modul_belegung,
          last_insert_rowid, belegung_seq, call, ret, exc, log>>

---------------------------------------------------------------------------
(* Bounds of the model *)

\* highest limit handed to list_latest besides its default
MaxLimit == 2
\* highest modul_id the catalog may grow to
MaxModul == 2
\* highest studiengang_id that may be handed out
MaxStudiengang == 3
\* highest belegung_id that may be handed out
MaxBelegung == 2

---------------------------------------------------------------------------
(* Optional values, dates and their TEXT form *)

None == <<>>
Some(x) == <<x>>

Date(y, m, d) == [year |-> y, month |-> m, day |-> d]

Digit(n) == 48 + n
Dash == 45

\* date.isoformat(): zero padded "YYYY-MM-DD"
IsoFormat(d) ==
    << Digit(d.year \div 1000), Digit((d.year \div 100) % 10),
       Digit((d.year \div 10) % 10), Digit(d.year % 10), Dash,
       Digit(d.month \div 10), Digit(d.month % 10), Dash,
       Digit(d.day \div 10), Digit(d.day % 10) >>

\* _iso(d): d.isoformat() if d else None
Iso(d) == IF d = None THEN None ELSE Some(IsoFormat(d[1]))

\* date.fromisoformat(text) for a "YYYY-MM-DD" text
FromIsoFormat(t) ==
    Date((t[1] - 48) * 1000 + (t[2] - 48) * 100 + (t[3] - 48) * 10 + (t[4] - 48),
         (t[6] - 48) * 10 + (t[7] - 48),
         (t[9] - 48) * 10 + (t[10] - 48))

\* date.fromisoformat(r[col]) if r[col] else None
OptFromIso(v) == IF v = None \/ v[1] = <<>> THEN None ELSE Some(FromIsoFormat(v[1]))

MaxOf(S) == CHOOSE x \in S : \A y \in S : y <= x

\* rowid the engine gives the next row inserted into a table with these ids
NextRowid(ids) == IF ids = {} THEN 1 ELSE MaxOf(ids) + 1

---------------------------------------------------------------------------
(* StudentRepository *)

StudentRow(id, s) ==
    [student_id |-> id, vorname |-> s.vorname, nachname |-> s.nachname,
     matrikelnummer |-> s.matrikelnummer,
     geburtsdatum |-> Iso(s.geburtsdatum), adresse |-> s.adresse]

\* mutant: the conflict branch forgets the adresse column
StudentConflictUpdateKeepsAdresse(r, s) ==
    [r EXCEPT !.vorname = s.vorname, !.nachname = s.nachname,
              !.geburtsdatum = Iso(s.geburtsdatum)]

\* ON CONFLICT(matrikelnummer) DO UPDATE SET vorname=..., nachname=..., ...
StudentConflictUpdate(r, s) ==
    [r EXCEPT !.vorname = s.vorname, !.nachname = s.nachname,
              !.geburtsdatum = Iso(s.geburtsdatum), !.adresse = s.adresse]

\* cursor.lastrowid after the upsert statement took its UPDATE branch: 0/None,
\* or the connection's last insert rowid, which the UPDATE leaves as it was
UpsertUpdateLastrowid == {0, last_insert_rowid}

\* the value upsert returns: cursor.lastrowid when truthy, else the row
\* looked up by matrikelnummer (0 stands for the RuntimeError of a miss)
UpsertReturn(lastrowid, tbl, s) ==
    IF lastrowid # 0 THEN lastrowid
    ELSE LET hit == {r \in tbl : r.matrikelnummer = s.matrikelnummer}
         IN  IF hit = {} THEN 0 ELSE (CHOOSE r \in hit : TRUE).student_id

StudentUpsert(s) ==
    LET conflict == {r \in student : r.matrikelnummer = s.matrikelnummer}
    IN  \E lastrowid \in (IF conflict = {}
                          THEN {NextRowid({r.student_id : r \in student})}
                          ELSE UpsertUpdateLastrowid) :
          LET tbl == IF conflict = {}
                     THEN student \cup {StudentRow(lastrowid, s)}
                     ELSE {IF r \in conflict THEN StudentConflictUpdate(r, s) ELSE r
                             : r \in student}
              id == UpsertReturn(lastrowid, tbl, s)
          IN  /\ student' = tbl
              /\ last_insert_rowid' = IF conflict = {} THEN lastrowid
                                      ELSE last_insert_rowid
              /\ call' = [op |-> "student.upsert", args |-> <<s>>]
              /\ ret' = id
              /\ exc' = IF id = 0 THEN "RuntimeError" ELSE ""
              /\ log' = IF lastrowid # 0 THEN <<"execute", "commit">>
                        ELSE <<"execute", "commit", "execute">>
              /\ UNCHANGED <<studiengang, modul, modul_belegung, belegung_seq>>

---------------------------------------------------------------------------
(* Schema constraints of the store (storage schema, spec section 3 and 6) *)

\* mutant: the titel column carries no unique constraint
TitelNeverTaken(tbl, titel, self) == FALSE

\* modul.titel is unique: a row other than `self` already has this titel
TitelTaken(tbl, titel, self) ==
    \E r \in tbl : r.titel = titel /\ r.modul_id # self

\* a foreign key value must name a row of the parent table
ForeignKeyOk(parentIds, id) == id \in parentIds

---------------------------------------------------------------------------
(* ModulRepository *)

ModulRow(id, m) ==
    [modul_id |-> id, titel |-> m.titel, ects |-> m.ects,
     plan_semester_nr |-> m.plan_semester_nr,
     default_soll_bestanden_am |-> Iso(m.default_soll_bestanden_am)]

\* Modul(modul_id=int(r[...]), titel=..., ects=int(...), ...)
ModulOfRow(r) ==
    [modul_id |-> r.modul_id, titel |-> r.titel, ects |-> r.ects,
     plan_semester_nr |-> r.plan_semester_nr,
     default_soll_bestanden_am |-> OptFromIso(r.default_soll_bestanden_am)]

ModulCreate(m) ==
    LET id == NextRowid({r.modul_id : r \in modul})
    IN  /\ id <= MaxModul
        /\ call' = [op |-> "modul.create", args |-> <<m>>]
        /\ IF TitelTaken(modul, m.titel, 0)
           THEN /\ exc' = "IntegrityError"
                /\ ret' = 0
                /\ log' = <<"execute">>
                /\ UNCHANGED <<modul, last_insert_rowid>>
           ELSE /\ modul' = modul \cup {ModulRow(id, m)}
                /\ last_insert_rowid' = id
                /\ exc' = ""
                /\ ret' = id
                /\ log' = <<"execute", "commit">>
        /\ UNCHANGED <<student, studiengang, modul_belegung, belegung_seq>>

\* UPDATE modul SET titel=?, ects=?, ... WHERE modul_id=?
ModulUpdateRows(tbl, modul_id, m) ==
    {IF r.modul_id = modul_id THEN ModulRow(modul_id, m) ELSE r : r \in tbl}

ModulUpdateById(modul_id, m) ==
    /\ call' = [op |-> "modul.update_by_id", args |-> <<modul_id, m>>]
    /\ ret' = 0
    /\ IF (\E r \in modul : r.modul_id = modul_id) /\ TitelTaken(modul, m.titel, modul_id)
       THEN /\ exc' = "IntegrityError"
            /\ log' = <<"execute">>
            /\ UNCHANGED modul
       ELSE /\ modul' = ModulUpdateRows(modul, modul_id, m)
            /\ exc' = ""
            /\ log' = <<"execute", "commit">>
    /\ UNCHANGED <<student, studiengang, modul_belegung, last_insert_rowid, belegung_seq>>

\* SELECT * FROM modul WHERE titel=?
ModulRowsByTitle(tbl, titel) == {r \in tbl : r.titel = titel}

\* fetchone() yields one of the matching rows, None when there is none
ModulGetByTitle(titel) ==
    LET hit == ModulRowsByTitle(modul, titel)
    IN  /\ call' = [op |-> "modul.get_by_title", args |-> <<titel>>]
        /\ ret' \in (IF hit = {} THEN {None} ELSE {Some(ModulOfRow(r)) : r \in hit})
        /\ exc' = ""
        /\ log' = <<"execute">>
        /\ UNCHANGED <<tables, last_insert_rowid, belegung_seq>>

---------------------------------------------------------------------------
(* StudiengangRepository *)

StudiengangRow(id, student_id, sg) ==
    [studiengang_id |-> id, student_id |-> student_id, name |-> sg.name,
     start_datum |-> Iso(Some(sg.start_datum)),
     soll_studiensemester |-> sg.soll_studiensemester,
     soll_durchschnittsnote |-> sg.soll_durchschnittsnote]

\* Studiengang(name=row["name"], start_datum=date.fromisoformat(...), ...)
StudiengangOfRow(r) ==
    [name |-> r.name, start_datum |-> FromIsoFormat(r.start_datum[1]),
     soll_studiensemester |-> r.soll_studiensemester,
     soll_durchschnittsnote |-> r.soll_durchschnittsnote]

StudiengangCreate(student_id, sg) ==
    LET id == NextRowid({r.studiengang_id : r \in studiengang})
    IN  /\ id <= MaxStudiengang
        /\ call' = [op |-> "studiengang.create", args |-> <<student_id, sg>>]
        /\ IF ForeignKeyOk({r.student_id : r \in student}, student_id)
           THEN /\ studiengang' = studiengang \cup {StudiengangRow(id, student_id, sg)}
                /\ last_insert_rowid' = id
                /\ exc' = ""
                /\ ret' = id
                /\ log' = <<"execute", "commit">>
           ELSE /\ exc' = "IntegrityError"
                /\ ret' = 0
                /\ log' = <<"execute">>
                /\ UNCHANGED <<studiengang, last_insert_rowid>>
        /\ UNCHANGED <<student, modul, modul_belegung, belegung_seq>>

\* mutant: ORDER BY studiengang_id ASC
OldestStudiengangRows(tbl, student_id) ==
    LET own == {r \in tbl : r.student_id = student_id}
    IN  {r \in own : \A o \in own : o.studiengang_id >= r.studiengang_id}

\* SELECT * FROM studiengang WHERE student_id=? ORDER BY studiengang_id DESC LIMIT 1
LatestStudiengangRows(tbl, student_id) ==
    LET own == {r \in tbl : r.student_id = student_id}
    IN  {r \in own : \A o \in own : o.studiengang_id <= r.studiengang_id}

GetLatestForStudent(student_id) ==
    LET rows == LatestStudiengangRows(studiengang, student_id)
    IN  /\ call' = [op |-> "studiengang.get_latest_for_student", args |-> <<student_id>>]
        /\ ret' = IF rows = {} THEN None
                  ELSE LET row == CHOOSE r \in rows : TRUE
                       IN  Some(<<row.studiengang_id, StudiengangOfRow(row)>>)
        /\ exc' = ""
        /\ log' = <<"execute">>
        /\ UNCHANGED <<tables, last_insert_rowid, belegung_seq>>

\* UPDATE studiengang SET name=?, start_datum=?, ... WHERE studiengang_id=?
StudiengangUpdateRows(tbl, studiengang_id, sg) ==
    {IF r.studiengang_id = studiengang_id
     THEN StudiengangRow(studiengang_id, r.student_id, sg) ELSE r : r \in tbl}

StudiengangUpdate(studiengang_id, sg) ==
    /\ call' = [op |-> "studiengang.update", args |-> <<studiengang_id, sg>>]
    /\ studiengang' = StudiengangUpdateRows(studiengang, studiengang_id, sg)
    /\ ret' = 0
    /\ exc' = ""
    /\ log' = <<"execute", "commit">>
    /\ UNCHANGED <<student, modul, modul_belegung, last_insert_rowid, belegung_seq>>

---------------------------------------------------------------------------
(* ModulBelegungRepository: create, get, update, delete *)

\* mutant: the two date columns are bound in the wrong order
BelegungRowDatesSwapped(id, b) ==
    [belegung_id |-> id, studiengang_id |-> b.studiengang_id, modul_id |-> b.modul_id,
     plan_semester_nr |-> b.plan_semester_nr, ist_semester_nr |-> b.ist_semester_nr,
     soll_bestanden_am |-> Iso(b.ist_bestanden_am),
     ist_bestanden_am |-> Iso(b.soll_bestanden_am),
     soll_note |-> b.soll_note, ist_note |-> b.ist_note,
     anzahl_versuche |-> b.anzahl_versuche]

\* INSERT INTO modul_belegung(...) VALUES (?,?,?,?,?,?,?,?,?)
BelegungRow(id, b) ==
    [belegung_id |-> id, studiengang_id |-> b.studiengang_id, modul_id |-> b.modul_id,
     plan_semester_nr |-> b.plan_semester_nr, ist_semester_nr |-> b.ist_semester_nr,
     soll_bestanden_am |-> Iso(b.soll_bestanden_am),
     ist_bestanden_am |-> Iso(b.ist_bestanden_am),
     soll_note |-> b.soll_note, ist_note |-> b.ist_note,
     anzahl_versuche |-> b.anzahl_versuche]

\* ModulBelegung(belegung_id=int(r["belegung_id"]), ...)
BelegungOfRow(r) ==
    [belegung_id |-> Some(r.belegung_id), studiengang_id |-> r.studiengang_id,
     modul_id |-> r.modul_id,
     plan_semester_nr |-> r.plan_semester_nr, ist_semester_nr |-> r.ist_semester_nr,
     soll_bestanden_am |-> OptFromIso(r.soll_bestanden_am),
     ist_bestanden_am |-> OptFromIso(r.ist_bestanden_am),
     soll_note |-> r.soll_note, ist_note |-> r.ist_note,
     anzahl_versuche |-> r.anzahl_versuche]

\* rowid of a new modul_belegung row: one above the highest rowid in the table,
\* or one above the highest rowid ever used when the key is AUTOINCREMENT
NewBelegungIds ==
    {NextRowid({r.belegung_id : r \in modul_belegung}), belegung_seq + 1}

BelegungCreate(b) ==
    \E id \in NewBelegungIds :
        /\ id <= MaxBelegung
        /\ call' = [op |-> "belegung.create", args |-> <<b>>]
        /\ IF /\ ForeignKeyOk({r.studiengang_id : r \in studiengang}, b.studiengang_id)
              /\ ForeignKeyOk({r.modul_id : r \in modul}, b.modul_id)
           THEN /\ modul_belegung' = modul_belegung \cup {BelegungRow(id, b)}
                /\ last_insert_rowid' = id
                /\ belegung_seq' = IF id > belegung_seq THEN id ELSE belegung_seq
                /\ exc' = ""
                /\ ret' = id
                /\ log' = <<"execute", "commit">>
           ELSE /\ exc' = "IntegrityError"
                /\ ret' = 0
                /\ log' = <<"execute">>
                /\ UNCHANGED <<modul_belegung, last_insert_rowid, belegung_seq>>
        /\ UNCHANGED <<student, studiengang, modul>>

\* mutant: WHERE belegung_id=? alone
BelegungMatchIdOnly(r, studiengang_id, belegung_id) ==
    r.belegung_id = belegung_id

\* WHERE studiengang_id=? AND belegung_id=?
BelegungMatch(r, studiengang_id, belegung_id) ==
    r.studiengang_id = studiengang_id /\ r.belegung_id = belegung_id

BelegungGet(studiengang_id, belegung_id) ==
    LET hit == {r \in modul_belegung : BelegungMatch(r, studiengang_id, belegung_id)}
    IN  /\ call' = [op |-> "belegung.get", args |-> <<studiengang_id, belegung_id>>]
        /\ ret' = IF hit = {} THEN None ELSE Some(BelegungOfRow(CHOOSE r \in hit : TRUE))
        /\ exc' = ""
        /\ log' = <<"execute">>
        /\ UNCHANGED <<tables, last_insert_rowid, belegung_seq>>

\* mutant: the precondition check is left out
BelegungIdNeverMissing(b) == FALSE

\* if b.belegung_id is None: raise ValueError(...)
BelegungIdMissing(b) == b.belegung_id = None

\* the rows the WHERE clause of update selects (belegung_id = NULL selects none)
BelegungUpdateHit(tbl, b) ==
    {r \in tbl : /\ b.belegung_id # None
                 /\ BelegungMatch(r, b.studiengang_id, b.belegung_id[1])}

\* UPDATE modul_belegung SET modul_id=?, ..., anzahl_versuche=? WHERE ...
BelegungUpdateRows(tbl, b) ==
    {IF r \in BelegungUpdateHit(tbl, b)
     THEN BelegungRow(r.belegung_id, b) ELSE r : r \in tbl}

BelegungUpdate(b) ==
    /\ call' = [op |-> "belegung.update", args |-> <<b>>]
    /\ ret' = 0
    /\ IF BelegungIdMissing(b)
       THEN /\ exc' = "ValueError"
            /\ log' = <<>>
            /\ UNCHANGED modul_belegung
       ELSE IF /\ BelegungUpdateHit(modul_belegung, b) # {}
               /\ ~ForeignKeyOk({r.modul_id : r \in modul}, b.modul_id)
       THEN /\ exc' = "IntegrityError"
            /\ log' = <<"execute">>
            /\ UNCHANGED modul_belegung
       ELSE /\ modul_belegung' = BelegungUpdateRows(modul_belegung, b)
            /\ exc' = ""
            /\ log' = <<"execute", "commit">>
    /\ UNCHANGED <<student, studiengang, modul, last_insert_rowid, belegung_seq>>

\* DELETE FROM modul_belegung WHERE studiengang_id=? AND belegung_id=?
BelegungDeleteRows(tbl, studiengang_id, belegung_id) ==
    {r \in tbl : ~BelegungMatch(r, studiengang_id, belegung_id)}

\* mutant: the DELETE is left uncommitted
BelegungDeleteNoCommit(studiengang_id, belegung_id) ==
    /\ call' = [op |-> "belegung.delete", args |-> <<studiengang_id, belegung_id>>]
    /\ modul_belegung' = BelegungDeleteRows(modul_belegung, studiengang_id, belegung_id)
    /\ ret' = 0
    /\ exc' = ""
    /\ log' = <<"execute">>
    /\ UNCHANGED <<student, studiengang, modul, last_insert_rowid, belegung_seq>>

BelegungDelete(studiengang_id, belegung_id) ==
    /\ call' = [op |-> "belegung.delete", args |-> <<studiengang_id, belegung_id>>]
    /\ modul_belegung' = BelegungDeleteRows(modul_belegung, studiengang_id, belegung_id)
    /\ ret' = 0
    /\ exc' = ""
    /\ log' = <<"execute", "commit">>
    /\ UNCHANGED <<student, studiengang, modul, last_insert_rowid, belegung_seq>>

---------------------------------------------------------------------------
(* SQL helpers of the KPI and plot queries *)

\* FROM modul_belegung mb JOIN modul m ON m.modul_id = mb.modul_id
JoinModul(rows) ==
    {j \in rows \X modul : j[2].modul_id = j[1].modul_id}

RECURSIVE Total(_)
\* the sum of the values of a set of <<row id, value>> terms
Total(T) ==
    IF T = {} THEN 0
    ELSE LET t == CHOOSE x \in T : TRUE IN t[2] + Total(T \ {t})

\* SUM(...) over the terms of the selected rows: NULL when no row is selected
SqlSum(T) == IF T = {} THEN None ELSE Some(Total(T))

\* COALESCE(v, d)
Coalesce(v, d) == IF v = None THEN d ELSE v[1]

\* BINARY collation of two keys of equal shape (sequences of integers)
LexLeq(a, b) ==
    \/ a = b
    \/ \E i \in 1..Len(a) : a[i] < b[i] /\ \A j \in 1..(i - 1) : a[j] = b[j]

RECURSIVE OrderBy(_)
\* the rows of a set of <<sort key, row>> pairs in ascending key order
OrderBy(P) ==
    IF P = {} THEN <<>>
    ELSE LET first == CHOOSE x \in P : \A y \in P : LexLeq(x[1], y[1])
         IN  <<first[2]>> \o OrderBy(P \ {first})

\* twice julianday(text) of a "YYYY-MM-DD" text (the engine's computeJD; the
\* Julian day of a date ends in .5, so its double is an odd integer)
JulianDay2(t) ==
    LET d == FromIsoFormat(t)
        Y == IF d.month <= 2 THEN d.year - 1 ELSE d.year
        M == IF d.month <= 2 THEN d.month + 12 ELSE d.month
        A == Y \div 100
        B == 2 - A + (A \div 4)
        X1 == (36525 * (Y + 4716)) \div 100
        X2 == (306001 * (M + 1)) \div 10000
    IN  2 * (X1 + X2 + d.day + B) - 3049

\* CAST(x AS INTEGER) of the real number x2 / 2: truncation towards zero
CastHalfAsInteger(x2) == IF x2 >= 0 THEN x2 \div 2 ELSE -((-x2) \div 2)

\* mutant: julianday(soll) - julianday(ist)
DeltaDaysSwapped(soll, ist) ==
    IF soll # None /\ ist # None
    THEN Some(CastHalfAsInteger(JulianDay2(soll[1]) - JulianDay2(ist[1])))
    ELSE None

\* CASE WHEN soll IS NOT NULL AND ist IS NOT NULL
\*      THEN CAST((julianday(ist) - julianday(soll)) AS INTEGER) ELSE NULL END
DeltaDays(soll, ist) ==
    IF soll # None /\ ist # None
    THEN Some(CastHalfAsInteger(JulianDay2(ist[1]) - JulianDay2(soll[1])))
    ELSE None

---------------------------------------------------------------------------
(* ModulBelegungRepository: KPI and plot queries *)

\* mutant: the IS NOT NULL filter is left out
CompletedRowsUnfiltered(studiengang_id) ==
    {r \in modul_belegung : r.studiengang_id = studiengang_id}

\* WHERE mb.studiengang_id=? AND mb.ist_bestanden_am IS NOT NULL
CompletedRows(studiengang_id) ==
    {r \in modul_belegung :
        r.studiengang_id = studiengang_id /\ r.ist_bestanden_am # None}

\* SELECT COALESCE(SUM(m.ects),0) ... ; float(row["ects"])
SumEctsCompletedValue(studiengang_id) ==
    Coalesce(SqlSum({<<j[1].belegung_id, j[2].ects>> :
                        j \in JoinModul(CompletedRows(studiengang_id))}), 0)

SumEctsCompleted(studiengang_id) ==
    /\ call' = [op |-> "belegung.sum_ects_completed", args |-> <<studiengang_id>>]
    /\ ret' = SumEctsCompletedValue(studiengang_id)
    /\ exc' = ""
    /\ log' = <<"execute">>
    /\ UNCHANGED <<tables, last_insert_rowid, belegung_seq>>

\* WHERE mb.studiengang_id=? AND mb.ist_note IS NOT NULL
GradedRows(studiengang_id) ==
    {r \in modul_belegung : r.studiengang_id = studiengang_id /\ r.ist_note # None}

\* mutant: the plain mean of the grades, SUM(mb.ist_note) / COUNT(*)
AvgGradeUnweighted(studiengang_id) ==
    LET J == JoinModul({r \in modul_belegung :
                           r.studiengang_id = studiengang_id /\ r.ist_note # None})
        wsum == SqlSum({<<j[1].belegung_id, j[1].ist_note[1]>> : j \in J})
    IN  IF J = {} THEN None ELSE Some(<<wsum[1], Cardinality(J)>>)

\* SUM(m.ects * mb.ist_note) AS wsum, SUM(m.ects) AS ects; None when ects is
\* NULL or 0, else wsum / ects, kept as the exact fraction <<wsum, ects>>
AvgGradeWeightedValue(studiengang_id) ==
    LET J == JoinModul(GradedRows(studiengang_id))
        wsum == SqlSum({<<j[1].belegung_id, j[2].ects * j[1].ist_note[1]>> : j \in J})
        ects == SqlSum({<<j[1].belegung_id, j[2].ects>> : j \in J})
    IN  IF ects = None \/ ects = Some(0) THEN None
        ELSE Some(<<wsum[1], ects[1]>>)

AvgGradeWeighted(studiengang_id) ==
    /\ call' = [op |-> "belegung.avg_grade_weighted", args |-> <<studiengang_id>>]
    /\ ret' = AvgGradeWeightedValue(studiengang_id)
    /\ exc' = ""
    /\ log' = <<"execute">>
    /\ UNCHANGED <<tables, last_insert_rowid, belegung_seq>>

\* mutant: MIN(belegung_id)
FirstId(group) == CHOOSE x \in {r.belegung_id : r \in group} :
                     \A r \in group : x <= r.belegung_id

\* MAX(belegung_id) AS last_id of one GROUP BY modul_id group
LastId(group) == MaxOf({r.belegung_id : r \in group})

\* WITH latest AS (SELECT MAX(belegung_id) AS last_id, modul_id
\*                 FROM modul_belegung WHERE studiengang_id=? GROUP BY modul_id)
Latest(studiengang_id) ==
    LET own == {r \in modul_belegung : r.studiengang_id = studiengang_id}
    IN  {[last_id |-> LastId({r \in own : r.modul_id = mid}), modul_id |-> mid]
           : mid \in {r.modul_id : r \in own}}

\* the columns selected for one joined row (mb, m)
PlotLatestRow(mb, m) ==
    [modul_id |-> mb.modul_id, titel |-> m.titel, ects |-> m.ects,
     soll_note |-> mb.soll_note, ist_note |-> mb.ist_note,
     soll_bestanden_am |-> mb.soll_bestanden_am,
     ist_bestanden_am |-> mb.ist_bestanden_am,
     delta_days |-> DeltaDays(mb.soll_bestanden_am, mb.ist_bestanden_am)]

\* FROM latest l JOIN modul_belegung mb ON mb.belegung_id = l.last_id
\*               JOIN modul m ON m.modul_id = mb.modul_id ORDER BY m.modul_id ASC
PlotLatestPerModuleValue(studiengang_id) ==
    LET J == {j \in Latest(studiengang_id) \X JoinModul(modul_belegung) :
                 j[2][1].belegung_id = j[1].last_id}
    IN  OrderBy({<< <<j[2][2].modul_id>>, PlotLatestRow(j[2][1], j[2][2]) >> : j \in J})

PlotLatestPerModule(studiengang_id) ==
    /\ call' = [op |-> "belegung.plot_latest_per_module", args |-> <<studiengang_id>>]
    /\ ret' = PlotLatestPerModuleValue(studiengang_id)
    /\ exc' = ""
    /\ log' = <<"execute">>
    /\ UNCHANGED <<tables, last_insert_rowid, belegung_seq>>

---------------------------------------------------------------------------
(* ModulRepository: further queries *)

\* SELECT * FROM modul WHERE modul_id=?
ModulGetById(modul_id) ==
    LET hit == {r \in modul : r.modul_id = modul_id}
    IN  /\ call' = [op |-> "modul.get_by_id", args |-> <<modul_id>>]
        /\ ret' = IF hit = {} THEN None ELSE Some(ModulOfRow(CHOOSE r \in hit : TRUE))
        /\ exc' = ""
        /\ log' = <<"execute">>
        /\ UNCHANGED <<tables, last_insert_rowid, belegung_seq>>

\* SELECT * FROM modul ORDER BY modul_id ASC
ModulListAll ==
    /\ call' = [op |-> "modul.list_all", args |-> <<>>]
    /\ ret' = OrderBy({<<<<r.modul_id>>, r>> : r \in modul})
    /\ exc' = ""
    /\ log' = <<"execute">>
    /\ UNCHANGED <<tables, last_insert_rowid, belegung_seq>>

\* SELECT COALESCE(SUM(ects),0) AS s FROM modul
ModulGetTotalEcts ==
    /\ call' = [op |-> "modul.get_total_ects", args |-> <<>>]
    /\ ret' = Coalesce(SqlSum({<<r.modul_id, r.ects>> : r \in modul}), 0)
    /\ exc' = ""
    /\ log' = <<"execute">>
    /\ UNCHANGED <<tables, last_insert_rowid, belegung_seq>>

---------------------------------------------------------------------------
(* ModulBelegungRepository: list and time series queries *)

\* limit: int = 200
DefaultLimit == 200

\* LIMIT ?: the first `limit` rows; a negative limit means no limit
SqlLimit(rows, limit) ==
    IF limit < 0 \/ limit >= Len(rows) THEN rows ELSE SubSeq(rows, 1, limit)

\* mutant: ORDER BY mb.belegung_id ASC
ListLatestKeyAscending(mb) == <<mb.belegung_id>>

\* ORDER BY mb.belegung_id DESC
ListLatestKey(mb) == <<-mb.belegung_id>>

\* the columns selected for one joined row (mb, m)
ListLatestRow(mb, m) ==
    [belegung_id |-> mb.belegung_id, modul_id |-> mb.modul_id,
     modul_titel |-> m.titel, ects |-> m.ects,
     plan_semester_nr |-> mb.plan_semester_nr, ist_semester_nr |-> mb.ist_semester_nr,
     ist_bestanden_am |-> mb.ist_bestanden_am, ist_note |-> mb.ist_note,
     soll_note |-> mb.soll_note, anzahl_versuche |-> mb.anzahl_versuche]

\* FROM modul_belegung mb JOIN modul m ... WHERE mb.studiengang_id=?
\* ORDER BY mb.belegung_id DESC LIMIT ?
ListLatestValue(studiengang_id, limit) ==
    LET J == JoinModul({r \in modul_belegung : r.studiengang_id = studiengang_id})
    IN  SqlLimit(OrderBy({<<ListLatestKey(j[1]), ListLatestRow(j[1], j[2])>> : j \in J}),
                 limit)

ListLatest(studiengang_id, limit) ==
    /\ call' = [op |-> "belegung.list_latest", args |-> <<studiengang_id, limit>>]
    /\ ret' = ListLatestValue(studiengang_id, limit)
    /\ exc' = ""
    /\ log' = <<"execute">>
    /\ UNCHANGED <<tables, last_insert_rowid, belegung_seq>>

\* mutant: the studiengang_id filter is left out
LastCompletionRowsAnyProgram(studiengang_id) ==
    {r \in modul_belegung : r.ist_bestanden_am # None}

\* WHERE studiengang_id=? AND ist_bestanden_am IS NOT NULL
LastCompletionRows(studiengang_id) ==
    {r \in modul_belegung :
        r.studiengang_id = studiengang_id /\ r.ist_bestanden_am # None}

\* SELECT MAX(ist_bestanden_am) AS last_date ...; None when there is no row,
\* else date.fromisoformat(row["last_date"])
LastCompletionDateValue(studiengang_id) ==
    LET texts == {r.ist_bestanden_am[1] : r \in LastCompletionRows(studiengang_id)}
    IN  IF texts = {} THEN None
        ELSE Some(FromIsoFormat(CHOOSE t \in texts : \A u \in texts : LexLeq(u, t)))

LastCompletionDate(studiengang_id) ==
    /\ call' = [op |-> "belegung.last_completion_date", args |-> <<studiengang_id>>]
    /\ ret' = LastCompletionDateValue(studiengang_id)
    /\ exc' = ""
    /\ log' = <<"execute">>
    /\ UNCHANGED <<tables, last_insert_rowid, belegung_seq>>

\* mutant: ORDER BY mb.belegung_id ASC alone
PlotCompletionsKeyIdOnly(mb) == <<mb.belegung_id>>

\* ORDER BY mb.ist_bestanden_am ASC, mb.belegung_id ASC
PlotCompletionsKey(mb) == mb.ist_bestanden_am[1] \o <<mb.belegung_id>>

\* the columns selected for one joined row (mb, m)
PlotCompletionsRow(mb, m) ==
    [ist_bestanden_am |-> mb.ist_bestanden_am, ects |-> m.ects, ist_note |-> mb.ist_note]

\* FROM modul_belegung mb JOIN modul m ... WHERE mb.studiengang_id = ?
\* AND mb.ist_bestanden_am IS NOT NULL ORDER BY ...
PlotCompletionsValue(studiengang_id) ==
    LET J == JoinModul({r \in modul_belegung :
                           /\ r.studiengang_id = studiengang_id
                           /\ r.ist_bestanden_am # None})
    IN  OrderBy({<<PlotCompletionsKey(j[1]), PlotCompletionsRow(j[1], j[2])>> : j \in J})

PlotCompletions(studiengang_id) ==
    /\ call' = [op |-> "belegung.plot_completions", args |-> <<studiengang_id>>]
    /\ ret' = PlotCompletionsValue(studiengang_id)
    /\ exc' = ""
    /\ log' = <<"execute">>
    /\ UNCHANGED <<tables, last_insert_rowid, belegung_seq>>

---------------------------------------------------------------------------
(* validation: parse_date *)

\* the "." of the patterns "%d.%m.%y" and "%d.%m.%Y"
Dot == 46
\* the blank of the day alternative " [1-9]"
Space == 32
\* characters str.strip() removes (blank, tab, line feed)
Whitespace == {32, 9, 10}

IsDigit(c) == c \in 48..57

\* (text or "").strip()
Strip(t) ==
    LET keep == {i \in 1..Len(t) : t[i] \notin Whitespace}
    IN  IF keep = {} THEN <<>>
        ELSE SubSeq(t, CHOOSE i \in keep : \A j \in keep : i <= j,
                       CHOOSE i \in keep : \A j \in keep : j <= i)

\* t has at least n characters from position i on
Has(t, i, n) == i + n - 1 <= Len(t)

\* lengths of the alternatives of a directive's regular expression that match
\* t at position i, in the order the regular expression tries them
\*   %d  3[0-1]|[1-2]\d|0[1-9]|[1-9]| [1-9]      %m  1[0-2]|0[1-9]|[1-9]
\*   %Y  \d\d\d\d                                 %y  \d\d
\* and of a literal character of the format
Alternatives(tok, t, i) ==
    CASE tok = "d" ->
           (IF Has(t, i, 2) /\ (\/ t[i] = 51 /\ t[i + 1] \in 48..49
                                \/ t[i] \in 49..50 /\ IsDigit(t[i + 1])
                                \/ t[i] = 48 /\ t[i + 1] \in 49..57)
            THEN <<2>> ELSE <<>>)
           \o (IF Has(t, i, 1) /\ t[i] \in 49..57 THEN <<1>> ELSE <<>>)
           \o (IF Has(t, i, 2) /\ t[i] = Space /\ t[i + 1] \in 49..57
               THEN <<2>> ELSE <<>>)
      [] tok = "m" ->
           (IF Has(t, i, 2) /\ (\/ t[i] = 49 /\ t[i + 1] \in 48..50
                                \/ t[i] = 48 /\ t[i + 1] \in 49..57)
            THEN <<2>> ELSE <<>>)
           \o (IF Has(t, i, 1) /\ t[i] \in 49..57 THEN <<1>> ELSE <<>>)
      [] tok = "Y" ->
           IF Has(t, i, 4) /\ \A k \in 0..3 : IsDigit(t[i + k]) THEN <<4>> ELSE <<>>
      [] tok = "y" ->
           IF Has(t, i, 2) /\ \A k \in 0..1 : IsDigit(t[i + k]) THEN <<2>> ELSE <<>>
      [] tok = "-" -> IF Has(t, i, 1) /\ t[i] = Dash THEN <<1>> ELSE <<>>
      [] tok = "." -> IF Has(t, i, 1) /\ t[i] = Dot THEN <<1>> ELSE <<>>

\* int(s) of a run of digits, a leading blank ignored
RECURSIVE IntOf(_)
IntOf(s) ==
    IF s = <<>> THEN 0
    ELSE 10 * IntOf(SubSeq(s, 1, Len(s) - 1))
         + (IF IsDigit(s[Len(s)]) THEN s[Len(s)] - 48 ELSE 0)

\* format_regex.match(data_string): the first match in backtracking order of
\* the format from token k on at position i, the nth alternative of token k
\* tried first; the groups found and the end of the match
RECURSIVE ReMatch(_, _, _, _, _)
ReMatch(fmt, k, t, i, n) ==
    IF k > Len(fmt) THEN Some([end |-> i - 1, Y |-> 0, y |-> 0, m |-> 0, d |-> 0])
    ELSE LET lens == Alternatives(fmt[k], t, i)
         IN  IF n > Len(lens) THEN None
             ELSE LET rest == ReMatch(fmt, k + 1, t, i + lens[n], 1)
                  IN  IF rest = None THEN ReMatch(fmt, k, t, i, n + 1)
                      ELSE IF fmt[k] \in {"Y", "y", "m", "d"}
                      THEN Some([rest[1] EXCEPT
                                   ![fmt[k]] = IntOf(SubSeq(t, i, i + lens[n] - 1))])
                      ELSE rest

\* mutant: every two-digit year is read as 20yy
CenturyAlways2000(y) == 2000 + y

\* %y: values 69-99 are mapped to 1969-1999, values 0-68 to 2000-2068
Century(y) == IF y <= 68 THEN 2000 + y ELSE 1900 + y

\* datetime(year, month, day) accepts the triple
DateValid(year, month, day) ==
    LET leap == year % 4 = 0 /\ (year % 100 # 0 \/ year % 400 = 0)
        length == IF month = 2 THEN (IF leap THEN 29 ELSE 28)
                  ELSE IF month \in {4, 6, 9, 11} THEN 30 ELSE 31
    IN  year >= 1 /\ month \in 1..12 /\ day \in 1..length

\* datetime.strptime(t, fmt).date(); None stands for its ValueError
Strptime(t, fmt) ==
    LET found == ReMatch(fmt, 1, t, 1, 1)
    IN  IF found = None THEN None
        ELSE IF found[1].end # Len(t) THEN None
        ELSE LET g == found[1]
                 year == IF \E k \in 1..Len(fmt) : fmt[k] = "y" THEN Century(g.y) ELSE g.Y
             IN  IF DateValid(year, g.m, g.d) THEN Some(Date(year, g.m, g.d)) ELSE None

\* ("%Y-%m-%d", "%d.%m.%y", "%d.%m.%Y")
DateFormats ==
    << <<"Y", "-", "m", "-", "d">>, <<"d", ".", "m", ".", "y">>, <<"d", ".", "m", ".", "Y">> >>

\* the formats that accept the whole of t, in the order they are tried
Accepting(t) == {k \in 1..Len(DateFormats) : Strptime(t, DateFormats[k]) # None}

parse_date(text) ==
    LET t == Strip(text)
        accepting == Accepting(t)
    IN  /\ call' = [op |-> "validation.parse_date", args |-> <<text>>]
        /\ IF t = <<>> THEN ret' = None /\ exc' = ""
           ELSE IF accepting # {}
           THEN /\ ret' = Strptime(t, DateFormats[CHOOSE k \in accepting :
                                                    \A o \in accepting : k <= o])
                /\ exc' = ""
           ELSE ret' = None /\ exc' = "ValidationError"
        /\ log' = <<>>
        /\ UNCHANGED <<tables, last_insert_rowid, belegung_seq>>

---------------------------------------------------------------------------
(* validation: parse_float *)

\* float values: a decimal m / 10^f, an infinity, or the not-a-number value
Num(m, f) == [kind |-> "num", m |-> m, f |-> f]
NaN == [kind |-> "nan"]
Inf(neg) == [kind |-> "inf", neg |-> neg]

RECURSIVE Pow10(_)
Pow10(n) == IF n = 0 THEN 1 ELSE 10 * Pow10(n - 1)

\* a < b on floats: false whenever an operand is not a number
FloatLess(a, b) ==
    CASE a.kind = "nan" \/ b.kind = "nan" -> FALSE
      [] a.kind = "inf" /\ b.kind = "inf" -> a.neg /\ ~b.neg
      [] a.kind = "inf" -> a.neg
      [] b.kind = "inf" -> ~b.neg
      [] OTHER -> a.m * Pow10(b.f) < b.m * Pow10(a.f)

\* .replace(",", ".")
ReplaceComma(t) == [i \in 1..Len(t) |-> IF t[i] = 44 THEN Dot ELSE t[i]]

\* letters folded to lower case
Lower(t) == [i \in 1..Len(t) |-> IF t[i] \in 65..90 THEN t[i] + 32 ELSE t[i]]

\* float(s) for a text without exponent or digit grouping: an optional sign,
\* then "nan", "inf", "infinity" in any case, or digits around at most one
\* point; None stands for its ValueError
FloatOf(s) ==
    LET signed == s # <<>> /\ s[1] \in {43, 45}
        neg == signed /\ s[1] = 45
        body == IF signed THEN SubSeq(s, 2, Len(s)) ELSE s
        points == {i \in 1..Len(body) : body[i] = Dot}
        digits == SelectSeq(body, IsDigit)
    IN  IF Lower(body) = <<110, 97, 110>> THEN Some(NaN)
        ELSE IF Lower(body) \in {<<105, 110, 102>>,
                                 <<105, 110, 102, 105, 110, 105, 116, 121>>}
        THEN Some(Inf(neg))
        ELSE IF /\ digits # <<>>
                /\ Cardinality(points) <= 1
                /\ Len(digits) + Cardinality(points) = Len(body)
        THEN LET f == IF points = {} THEN 0
                      ELSE Len(body) - (CHOOSE i \in points : TRUE)
             IN  Some(Num((IF neg THEN -1 ELSE 1) * IntOf(digits), f))
        ELSE None

\* min_value is not None and v < min_value, or
\* max_value is not None and v > max_value
OutOfRange(v, min_value, max_value) ==
    \/ min_value # None /\ FloatLess(v, min_value[1])
    \/ max_value # None /\ FloatLess(max_value[1], v)

parse_float(text, min_value, max_value) ==
    LET v == FloatOf(ReplaceComma(Strip(text)))
    IN  /\ call' = [op |-> "validation.parse_float", args |-> <<text, min_value, max_value>>]
        /\ IF v = None \/ OutOfRange(v[1], min_value, max_value)
           THEN ret' = None /\ exc' = "ValidationError"
           ELSE ret' = v[1] /\ exc' = ""
        /\ log' = <<>>
        /\ UNCHANGED <<tables, last_insert_rowid, belegung_seq>>

---------------------------------------------------------------------------
(* Inputs *)

Matrikelnummern == {"M1", "M2"}

StudentInputs ==
    [vorname : {"Ada", "Bob"}, nachname : {"Lovelace"},
     matrikelnummer : Matrikelnummern,
     geburtsdatum : {None, Some(Date(2024, 2, 28))},
     adresse : {None, Some("Hauptstr. 1")}]

Titel == {"Mathe", "OOP", "Statistik"}

ModulInputs ==
    [titel : Titel, ects : {0, 5}, plan_semester_nr : {1},
     default_soll_bestanden_am : {None, Some(Date(2024, 3, 1))}]

\* catalog entries created between student upserts
ModulInputsFew ==
    {m \in ModulInputs : m.ects = 5 /\ m.default_soll_bestanden_am = None}

StudiengangInputs ==
    {[name |-> "Informatik", start_datum |-> Date(2023, 12, 31),
      soll_studiensemester |-> None, soll_durchschnittsnote |-> 20],
     [name |-> "BWL", start_datum |-> Date(2024, 3, 1),
      soll_studiensemester |-> Some(6), soll_durchschnittsnote |-> 25],
     [name |-> "Informatik", start_datum |-> Date(2024, 3, 1),
      soll_studiensemester |-> Some(7), soll_durchschnittsnote |-> 20]}

\* the two students every seeded store starts with
SeedStudents ==
    {StudentRow(1, [vorname |-> "Ada", nachname |-> "Lovelace", matrikelnummer |-> "M1",
                    geburtsdatum |-> None, adresse |-> None]),
     StudentRow(2, [vorname |-> "Bob", nachname |-> "Lovelace", matrikelnummer |-> "M2",
                    geburtsdatum |-> Some(Date(2024, 2, 28)), adresse |-> None])}

\* the catalog every seeded store starts with
SeedModule ==
    {ModulRow(1, [titel |-> "Mathe", ects |-> 5, plan_semester_nr |-> 1,
                  default_soll_bestanden_am |-> None]),
     ModulRow(2, [titel |-> "OOP", ects |-> 10, plan_semester_nr |-> 1,
                  default_soll_bestanden_am |-> Some(Date(2024, 3, 1))]),
     ModulRow(3, [titel |-> "Statistik", ects |-> 0, plan_semester_nr |-> 2,
                  default_soll_bestanden_am |-> None])}

\* the programs every seeded store starts with, both of student 1
SeedStudiengaenge ==
    {StudiengangRow(1, 1, [name |-> "Informatik", start_datum |-> Date(2023, 12, 31),
                           soll_studiensemester |-> None,
                           soll_durchschnittsnote |-> 20]),
     StudiengangRow(2, 1, [name |-> "BWL", start_datum |-> Date(2024, 3, 1),
                           soll_studiensemester |-> Some(6),
                           soll_durchschnittsnote |-> 25])}

Enrollment(modul_id, plan, ist_sem, soll_am, ist_am, soll_note, ist_note, versuche) ==
    [modul_id |-> modul_id, plan_semester_nr |-> plan, ist_semester_nr |-> ist_sem,
     soll_bestanden_am |-> soll_am, ist_bestanden_am |-> ist_am,
     soll_note |-> soll_note, ist_note |-> ist_note, anzahl_versuche |-> versuche]

\* what is recorded about one exam attempt
BelegungData ==
    { \* planned, nothing achieved yet
      Enrollment(1, 1, None, Some(Date(2024, 1, 10)), None, Some(20), None, 1),
      \* passed late, across the leap day
      Enrollment(1, 1, Some(2), Some(Date(2023, 12, 31)), Some(Date(2024, 3, 1)),
                 Some(20), Some(13), 2),
      \* passed early
      Enrollment(2, 1, Some(1), Some(Date(2024, 3, 1)), Some(Date(2024, 2, 28)),
                 None, Some(20), 1),
      \* passed on the target day
      Enrollment(2, 2, Some(2), Some(Date(2024, 1, 15)), Some(Date(2024, 1, 15)),
                 Some(13), Some(30), 1),
      \* passed without target date and without grade
      Enrollment(3, 2, Some(2), None, Some(Date(2024, 1, 10)), None, None, 1),
      \* graded but not passed
      Enrollment(3, 2, None, Some(Date(2024, 1, 15)), None, Some(20), Some(50), 3),
      \* a module that is not in the catalog
      Enrollment(4, 1, None, None, None, None, None, 1) }

StudiengangIds == 1..2

\* ModulBelegung objects handed to create and update
BelegungInputs(ids) ==
    {[belegung_id |-> id, studiengang_id |-> sg, modul_id |-> d.modul_id,
      plan_semester_nr |-> d.plan_semester_nr, ist_semester_nr |-> d.ist_semester_nr,
      soll_bestanden_am |-> d.soll_bestanden_am, ist_bestanden_am |-> d.ist_bestanden_am,
      soll_note |-> d.soll_note, ist_note |-> d.ist_note,
      anzahl_versuche |-> d.anzahl_versuche]
       : id \in ids, sg \in StudiengangIds, d \in BelegungData}

BelegungIds == 1..MaxBelegung

\* exam attempts whose completion dates tie and cross the turn of the year
VerlaufData ==
    { Enrollment(1, 1, Some(1), Some(Date(2024, 1, 10)), Some(Date(2024, 1, 15)),
                 Some(20), Some(13), 1),
      Enrollment(2, 1, Some(1), None, Some(Date(2024, 1, 15)), None, Some(20), 2),
      Enrollment(3, 2, Some(2), None, Some(Date(2023, 12, 31)), None, None, 1),
      Enrollment(1, 2, None, Some(Date(2024, 3, 1)), None, Some(20), None, 1) }

\* ModulBelegung objects handed to create and update in the time series runs
VerlaufInputs(ids) ==
    {[belegung_id |-> id, studiengang_id |-> sg, modul_id |-> d.modul_id,
      plan_semester_nr |-> d.plan_semester_nr, ist_semester_nr |-> d.ist_semester_nr,
      soll_bestanden_am |-> d.soll_bestanden_am, ist_bestanden_am |-> d.ist_bestanden_am,
      soll_note |-> d.soll_note, ist_note |-> d.ist_note,
      anzahl_versuche |-> d.anzahl_versuche]
       : id \in ids, sg \in StudiengangIds, d \in VerlaufData}

Limits == 0..MaxLimit \cup {DefaultLimit}

TwoDigits(n) == <<Digit(n \div 10), Digit(n % 10)>>

\* "DD.MM.YY"
DotShort(d) == TwoDigits(d.day) \o <<Dot>> \o TwoDigits(d.month) \o <<Dot>>
               \o TwoDigits(d.year % 100)

\* "DD.MM.YYYY"
DotLong(d) == TwoDigits(d.day) \o <<Dot>> \o TwoDigits(d.month) \o <<Dot>>
              \o TwoDigits(d.year \div 100) \o TwoDigits(d.year % 100)

\* a number written without a leading zero
Plain(n) == IF n < 10 THEN <<Digit(n)>> ELSE TwoDigits(n)

\* "D.M.YY"
DotPlain(d) == Plain(d.day) \o <<Dot>> \o Plain(d.month) \o <<Dot>>
               \o TwoDigits(d.year % 100)

\* day, month, year triples typed into a date field, not all of them days
Days ==
    {Date(y, m, d) : y \in {1950, 1968, 1969, 1999, 2000, 2023, 2024, 2068, 2069},
                     m \in {2, 12}, d \in {1, 29, 31}}

\* texts typed into a date field
DateTexts ==
    UNION {{IsoFormat(d), DotShort(d), DotLong(d), DotPlain(d),
            <<Space>> \o DotLong(d) \o <<Space, Space>>} : d \in Days}
    \cup { <<>>, <<Space, Space>>, <<110, 111>>,
           IsoFormat(Date(2024, 13, 1)), IsoFormat(Date(2024, 0, 10)),
           IsoFormat(Date(0, 1, 1)),
           SubSeq(IsoFormat(Date(2024, 3, 1)), 1, 8) \o <<Space, Digit(1)>>,
           SubSeq(DotLong(Date(2024, 3, 1)), 1, 9),
           DotLong(Date(2024, 3, 1)) \o <<Digit(5)>>,
           DotShort(Date(2024, 3, 1)) \o <<120>>,
           <<Digit(1), Space>> \o SubSeq(DotShort(Date(2024, 3, 1)), 3, 8) }

\* texts typed into a number field: "3,5" "3.5" "6.0" "0,99" "1.0" "5,00"
\* "5,01" "-1" "+2" ".5" "5." " 4 " "3.5.1" "1,0,0" "" "." "+" "+-1" "1 2"
\* "abc" "nan" "NaN" "-nan" "inf" "-inf" "Infinity" "infinit"
FloatTexts ==
    { <<51, 44, 53>>, <<51, 46, 53>>, <<54, 46, 48>>, <<48, 44, 57, 57>>,
      <<49, 46, 48>>, <<53, 44, 48, 48>>, <<53, 44, 48, 49>>, <<45, 49>>,
      <<43, 50>>, <<46, 53>>, <<53, 46>>, <<32, 52, 32>>, <<51, 46, 53, 46, 49>>,
      <<49, 44, 48, 44, 48>>, <<>>, <<46>>, <<43>>, <<43, 45, 49>>, <<49, 32, 50>>,
      <<97, 98, 99>>, <<110, 97, 110>>, <<78, 97, 78>>, <<45, 110, 97, 110>>,
      <<105, 110, 102>>, <<45, 105, 110, 102>>,
      <<73, 110, 102, 105, 110, 105, 116, 121>>, <<105, 110, 102, 105, 110, 105, 116>> }

\* the bounds of a grade field, each given or not: 1.0 and 5.0
MinValues == {None, Some(Num(10, 1))}
MaxValues == {None, Some(Num(50, 1))}

\* one object of each kind, and a second version of it, for runs over all
\* repositories
EinStudent ==
    {s \in StudentInputs : /\ s.matrikelnummer = "M1" /\ s.vorname = "Ada"
                           /\ s.geburtsdatum = None /\ s.adresse = None}

EinModul ==
    {m \in ModulInputs : m.titel = "Mathe" /\ m.default_soll_bestanden_am = None}

EinStudiengang == {sg \in StudiengangInputs : sg.name = "BWL"}

EineBelegung(ids) ==
    {b \in VerlaufInputs(ids) :
        /\ b.studiengang_id = 1 /\ b.modul_id = 1 /\ b.ist_bestanden_am # None}

\* graded completions of two modules and an open enrollment, of either program
IsolationInputs(ids) == {b \in VerlaufInputs(ids) : b.modul_id \in {1, 2}}

---------------------------------------------------------------------------
(* Specifications *)

EmptyStore ==
    /\ student = {}
    /\ studiengang = {}
    /\ modul = {}
    /\ modul_belegung = {}
    /\ last_insert_rowid = 0
    /\ belegung_seq = 0
    /\ call = [op |-> "init", args |-> <<>>]
    /\ ret = 0
    /\ exc = ""
    /\ log = <<>>

Init == EmptyStore

\* students are upserted while the catalog is filled
NextStudent ==
    \/ \E s \in StudentInputs : StudentUpsert(s)
    \/ \E m \in ModulInputsFew : ModulCreate(m)

SpecStudent == Init /\ [][NextStudent]_vars

\* catalog maintenance
NextModul ==
    \/ \E m \in ModulInputs : ModulCreate(m)
    \/ \E id \in 1..(MaxModul + 1), m \in ModulInputs : ModulUpdateById(id, m)
    \/ \E t \in Titel : ModulGetByTitle(t)

SpecModul == Init /\ [][NextModul]_vars

\* the store after two students were upserted
InitStudiengang ==
    /\ student = SeedStudents
    /\ studiengang = {}
    /\ modul = {}
    /\ modul_belegung = {}
    /\ last_insert_rowid = 2
    /\ belegung_seq = 0
    /\ call = [op |-> "init", args |-> <<>>]
    /\ ret = 0
    /\ exc = ""
    /\ log = <<>>

\* programs are created, rewritten and looked up
NextStudiengang ==
    \/ \E sid \in 1..3, sg \in StudiengangInputs : StudiengangCreate(sid, sg)
    \/ \E id \in 1..(MaxStudiengang + 1), sg \in StudiengangInputs : StudiengangUpdate(id, sg)
    \/ \E sid \in 1..3 : GetLatestForStudent(sid)

SpecStudiengang == InitStudiengang /\ [][NextStudiengang]_vars

\* the store after a student, two programs and the catalog were saved
InitBelegung ==
    /\ student = SeedStudents
    /\ studiengang = SeedStudiengaenge
    /\ modul = SeedModule
    /\ modul_belegung = {}
    /\ last_insert_rowid = 3
    /\ belegung_seq = 0
    /\ call = [op |-> "init", args |-> <<>>]
    /\ ret = 0
    /\ exc = ""
    /\ log = <<>>

\* enrollments are created, read, rewritten and deleted
NextBelegung ==
    \/ \E b \in BelegungInputs({None}) : BelegungCreate(b)
    \/ \E sg \in StudiengangIds, id \in BelegungIds : BelegungGet(sg, id)
    \/ \E b \in BelegungInputs({None} \cup {Some(i) : i \in BelegungIds}) : BelegungUpdate(b)
    \/ \E sg \in StudiengangIds, id \in BelegungIds : BelegungDelete(sg, id)

SpecBelegung == InitBelegung /\ [][NextBelegung]_vars

\* enrollments change and the KPI and plot queries are asked
NextKpi ==
    \/ \E b \in BelegungInputs({None}) : BelegungCreate(b)
    \/ \E b \in BelegungInputs({Some(i) : i \in BelegungIds}) : BelegungUpdate(b)
    \/ \E sg \in StudiengangIds, id \in BelegungIds : BelegungDelete(sg, id)
    \/ \E sg \in StudiengangIds : SumEctsCompleted(sg)
    \/ \E sg \in StudiengangIds : AvgGradeWeighted(sg)
    \/ \E sg \in StudiengangIds : PlotLatestPerModule(sg)

SpecKpi == InitBelegung /\ [][NextKpi]_vars

\* enrollments change and every program-scoped query is asked
NextVerlauf ==
    \/ \E b \in VerlaufInputs({None}) : BelegungCreate(b)
    \/ \E b \in VerlaufInputs({Some(i) : i \in BelegungIds}) : BelegungUpdate(b)
    \/ \E sg \in StudiengangIds, id \in BelegungIds : BelegungDelete(sg, id)
    \/ \E sg \in StudiengangIds, limit \in Limits : ListLatest(sg, limit)
    \/ \E sg \in StudiengangIds : PlotCompletions(sg)
    \/ \E sg \in StudiengangIds : LastCompletionDate(sg)
    \/ \E sg \in StudiengangIds : SumEctsCompleted(sg)
    \/ \E sg \in StudiengangIds : AvgGradeWeighted(sg)
    \/ \E sg \in StudiengangIds : PlotLatestPerModule(sg)

SpecVerlauf == InitBelegung /\ [][NextVerlauf]_vars

\* texts of the input fields are parsed
NextValidation ==
    \/ \E text \in DateTexts : parse_date(text)
    \/ \E text \in FloatTexts, min_value \in MinValues, max_value \in MaxValues :
          parse_float(text, min_value, max_value)

SpecValidation == EmptyStore /\ [][NextValidation]_vars

\* every repository method is called on a store that starts empty
NextRepositories ==
    \/ \E s \in EinStudent : StudentUpsert(s)
    \/ \E sid \in 1..2, sg \in EinStudiengang : StudiengangCreate(sid, sg)
    \/ \E sid \in 1..2 : GetLatestForStudent(sid)
    \/ \E id \in 1..2, sg \in EinStudiengang : StudiengangUpdate(id, sg)
    \/ \E m \in EinModul : ModulCreate(m)
    \/ \E id \in 1..2, m \in EinModul : ModulUpdateById(id, m)
    \/ \E id \in 1..2 : ModulGetById(id)
    \/ \E t \in {"Mathe"} : ModulGetByTitle(t)
    \/ ModulListAll
    \/ ModulGetTotalEcts
    \/ \E b \in EineBelegung({None}) : BelegungCreate(b)
    \/ \E b \in EineBelegung({None, Some(1)}) : BelegungUpdate(b)
    \/ \E id \in 1..2 : BelegungGet(1, id)
    \/ \E id \in 1..2 : BelegungDelete(1, id)
    \/ \E limit \in {1} : ListLatest(1, limit)
    \/ SumEctsCompleted(1)
    \/ AvgGradeWeighted(1)
    \/ LastCompletionDate(1)
    \/ PlotLatestPerModule(1)
    \/ PlotCompletions(1)

SpecRepositories == EmptyStore /\ [][NextRepositories]_vars

\* two programs share the enrollment table and each is asked its six queries
NextIsolation ==
    \/ \E b \in IsolationInputs({None}) : BelegungCreate(b)
    \/ \E b \in IsolationInputs({Some(i) : i \in BelegungIds}) : BelegungUpdate(b)
    \/ \E sg \in StudiengangIds, id \in BelegungIds : BelegungDelete(sg, id)
    \/ \E sg \in StudiengangIds : ListLatest(sg, DefaultLimit)
    \/ \E sg \in StudiengangIds : PlotCompletions(sg)
    \/ \E sg \in StudiengangIds : LastCompletionDate(sg)
    \/ \E sg \in StudiengangIds : SumEctsCompleted(sg)
    \/ \E sg \in StudiengangIds : AvgGradeWeighted(sg)
    \/ \E sg \in StudiengangIds : PlotLatestPerModule(sg)

SpecIsolation == InitBelegung /\ [][NextIsolation]_vars

---------------------------------------------------------------------------
(* Claims about StudentRepository *)

\* C1: a successful StudentRepository.upsert(s) returns the student_id of the
\* stored row whose matrikelnummer is s.matrikelnummer, whichever branch the
\* statement took and whatever was inserted elsewhere in between.
C1_UpsertReturnsStoredId ==
    (call.op = "student.upsert" /\ exc = "") =>
        \E r \in student : /\ r.matrikelnummer = call.args[1].matrikelnummer
                           /\ r.student_id = ret

UniqueMatrikelnummer(tbl) ==
    \A r1, r2 \in tbl : r1.matrikelnummer = r2.matrikelnummer => r1 = r2

\* what an upsert step (student -> student') with argument s has to do
UpsertEffect(s) ==
    LET old == {r \in student : r.matrikelnummer = s.matrikelnummer}
    IN  IF old = {}
        THEN /\ student \subseteq student'
             /\ Cardinality(student') = Cardinality(student) + 1
        ELSE /\ Cardinality(student') = Cardinality(student)
             /\ \A r \in student \ old : r \in student'
             /\ \A o \in old : \E n \in student' :
                  /\ n.student_id = o.student_id
                  /\ n.matrikelnummer = o.matrikelnummer
                  /\ n.vorname = s.vorname
                  /\ n.nachname = s.nachname
                  /\ OptFromIso(n.geburtsdatum) = s.geburtsdatum
                  /\ n.adresse = s.adresse

\* C2: no two student rows ever share a matrikelnummer; an upsert of a new
\* matrikelnummer adds exactly one row; an upsert of an existing one keeps the
\* row count, the row's student_id and matrikelnummer, writes vorname,
\* nachname, geburtsdatum and adresse as given and leaves all other rows alone.
C2_UpsertByNaturalKey ==
    [][/\ UniqueMatrikelnummer(student)
       /\ UniqueMatrikelnummer(student')
       /\ (call'.op = "student.upsert" => UpsertEffect(call'.args[1]))]_vars

\* an upsert has just overwritten the first student while a second one exists
C2_Witness ==
    /\ call.op = "student.upsert"
    /\ Cardinality(student) = 2
    /\ \E r \in student : /\ r.student_id = 1
                          /\ r.matrikelnummer = call.args[1].matrikelnummer
                          /\ r.vorname = "Bob"
                          /\ r.adresse # None

---------------------------------------------------------------------------
(* Claims about StudiengangRepository *)

\* the program rows of a student, as records read back from the table
ProgramsOf(student_id) == {r \in studiengang : r.student_id = student_id}

\* C7: get_latest_for_student(s) returns none when s owns no program, and
\* otherwise the (studiengang_id, program) pair of the program with the highest
\* studiengang_id among those of s, with the values stored in that row;
\* programs of other students play no part.
C7_LatestForStudent ==
    call.op = "studiengang.get_latest_for_student" =>
        LET own == ProgramsOf(call.args[1])
        IN  IF own = {} THEN ret = None
            ELSE /\ ret # None
                 /\ \E r \in own :
                      /\ \A o \in own : o.studiengang_id <= r.studiengang_id
                      /\ ret[1][1] = r.studiengang_id
                      /\ ret[1][2].name = r.name
                      /\ IsoFormat(ret[1][2].start_datum) = r.start_datum[1]
                      /\ ret[1][2].soll_studiensemester = r.soll_studiensemester
                      /\ ret[1][2].soll_durchschnittsnote = r.soll_durchschnittsnote

\* the latest program of student 1 was returned although student 2 owns a
\* program with a higher id, and student 1 owns an older one too
C7_Witness ==
    /\ call.op = "studiengang.get_latest_for_student"
    /\ call.args[1] = 1
    /\ ret # None
    /\ ret[1][1] = 2
    /\ \E r \in studiengang : r.studiengang_id = 3 /\ r.student_id = 2
    /\ \E r \in studiengang : r.studiengang_id = 1 /\ r.student_id = 1

---------------------------------------------------------------------------
(* Claims about the KPI and plot queries *)

\* the enrollment rows of a program
BelegungenOf(p) == {r \in modul_belegung : r.studiengang_id = p}

\* the credit weight of a catalog module
EctsOf(modul_id) == (CHOOSE m \in modul : m.modul_id = modul_id).ects

\* C3: plot_latest_per_module(p) returns exactly one row for each module with
\* an enrollment in program p and none for any other module; the row carries
\* soll_note, ist_note and the dates of the enrollment with the highest
\* belegung_id among those of (p, module); rows ascend by modul_id.
C3_LatestPerModule ==
    call.op = "belegung.plot_latest_per_module" =>
        LET own == BelegungenOf(call.args[1])
            mods == {r.modul_id : r \in own}
        IN  /\ Len(ret) = Cardinality(mods)
            /\ \A i, j \in 1..Len(ret) : i < j => ret[i].modul_id < ret[j].modul_id
            /\ \A i \in 1..Len(ret) :
                 /\ ret[i].modul_id \in mods
                 /\ \E r \in own :
                      /\ r.modul_id = ret[i].modul_id
                      /\ \A o \in own : o.modul_id = r.modul_id =>
                                            o.belegung_id <= r.belegung_id
                      /\ ret[i].soll_note = r.soll_note
                      /\ ret[i].ist_note = r.ist_note
                      /\ ret[i].soll_bestanden_am = r.soll_bestanden_am
                      /\ ret[i].ist_bestanden_am = r.ist_bestanden_am

\* a module was enrolled twice in the program asked for, with different grades,
\* and the one row returned carries the later grade
C3_Witness ==
    /\ call.op = "belegung.plot_latest_per_module"
    /\ Len(ret) = 1
    /\ \E a, b \in BelegungenOf(call.args[1]) :
         /\ a.belegung_id < b.belegung_id
         /\ a.modul_id = b.modul_id
         /\ a.ist_note # b.ist_note
         /\ ret[1].ist_note = b.ist_note

IsLeap(y) == y % 4 = 0 /\ (y % 100 # 0 \/ y % 400 = 0)

DaysInMonth(y, m) ==
    IF m = 2 THEN (IF IsLeap(y) THEN 29 ELSE 28)
    ELSE IF m \in {4, 6, 9, 11} THEN 30 ELSE 31

RECURSIVE DaysBeforeMonth(_, _)
DaysBeforeMonth(y, m) ==
    IF m = 1 THEN 0 ELSE DaysBeforeMonth(y, m - 1) + DaysInMonth(y, m - 1)

\* the number of the day in the proleptic Gregorian calendar (0001-01-01 is 1)
Ordinal(d) ==
    LET y == d.year - 1
    IN  y * 365 + (y \div 4) - (y \div 100) + (y \div 400)
          + DaysBeforeMonth(d.year, d.month) + d.day

\* C4: in every row of plot_latest_per_module, delta_days is none when the
\* target or the actual date is missing, and otherwise the signed number of
\* days from soll_bestanden_am to ist_bestanden_am.
C4_DeltaDays ==
    call.op = "belegung.plot_latest_per_module" =>
        \A i \in 1..Len(ret) :
            IF ret[i].soll_bestanden_am = None \/ ret[i].ist_bestanden_am = None
            THEN ret[i].delta_days = None
            ELSE ret[i].delta_days =
                   Some(Ordinal(FromIsoFormat(ret[i].ist_bestanden_am[1]))
                        - Ordinal(FromIsoFormat(ret[i].soll_bestanden_am[1])))

\* one returned row was completed early and another has no target date
C4_Witness ==
    /\ call.op = "belegung.plot_latest_per_module"
    /\ \E i \in 1..Len(ret) : ret[i].delta_days = Some(-2)
    /\ \E i \in 1..Len(ret) :
         ret[i].delta_days = None /\ ret[i].ist_bestanden_am # None

RECURSIVE EctsSum(_)
\* the credit weights of the modules of a set of enrollment rows, row by row
EctsSum(R) ==
    IF R = {} THEN 0
    ELSE LET r == CHOOSE x \in R : TRUE IN EctsOf(r.modul_id) + EctsSum(R \ {r})

RECURSIVE WeightedSum(_)
\* ects * ist_note summed over a set of graded enrollment rows
WeightedSum(R) ==
    IF R = {} THEN 0
    ELSE LET r == CHOOSE x \in R : TRUE
         IN  EctsOf(r.modul_id) * r.ist_note[1] + WeightedSum(R \ {r})

\* C5: sum_ects_completed(p) is the sum of the module ects over exactly the
\* enrollment rows of p with a non-null ist_bestanden_am, each row counted
\* once; 0 when there is no such row.
C5_SumEctsCompleted ==
    call.op = "belegung.sum_ects_completed" =>
        LET done == {r \in BelegungenOf(call.args[1]) : r.ist_bestanden_am # None}
        IN  /\ ret = EctsSum(done)
            /\ done = {} => ret = 0

\* two completed attempts of the same 10-ects module were both counted
C5_Witness ==
    /\ call.op = "belegung.sum_ects_completed"
    /\ ret = 20
    /\ \E a, b \in BelegungenOf(call.args[1]) :
         /\ a # b
         /\ a.modul_id = b.modul_id
         /\ a.ist_bestanden_am # None
         /\ b.ist_bestanden_am # None

\* C6: avg_grade_weighted(p) is none exactly when p has no graded enrollment or
\* the ects of the graded enrollments sum to zero; otherwise it is
\* sum(ects * ist_note) / sum(ects) over exactly the graded enrollments of p.
C6_AvgGradeWeighted ==
    call.op = "belegung.avg_grade_weighted" =>
        LET graded == {r \in BelegungenOf(call.args[1]) : r.ist_note # None}
        IN  IF graded = {} \/ EctsSum(graded) = 0
            THEN ret = None
            ELSE /\ ret # None
                 /\ ret[1][2] # 0
                 /\ ret[1][1] * EctsSum(graded) = WeightedSum(graded) * ret[1][2]

\* grades 1.3 (5 ects) and 2.0 (10 ects) were averaged to 26.5 / 15
C6_Witness ==
    /\ call.op = "belegung.avg_grade_weighted"
    /\ ret = Some(<<265, 15>>)

---------------------------------------------------------------------------
(* Claims about enrollment update, get and delete *)

\* C8: update(b) with b.belegung_id unset raises ValueError before any
\* statement is executed: no table changes and nothing is committed.
C8_UpdateNeedsId ==
    [][(call'.op = "belegung.update" /\ call'.args[1].belegung_id = None) =>
          /\ exc' = "ValueError"
          /\ log' = <<>>
          /\ tables' = tables]_vars

\* an update without id was refused while its program had enrollments
C8_Witness ==
    /\ call.op = "belegung.update"
    /\ call.args[1].belegung_id = None
    /\ exc = "ValueError"
    /\ BelegungenOf(call.args[1].studiengang_id) # {}

\* the rows both parts of the composite key select
KeyHit(tbl, studiengang_id, belegung_id) ==
    {r \in tbl : r.studiengang_id = studiengang_id /\ r.belegung_id = belegung_id}

\* get returned the record of the row with this composite key, or none
GetByCompositeKey ==
    call.op = "belegung.get" =>
        LET hit == KeyHit(modul_belegung, call.args[1], call.args[2])
        IN  IF hit = {} THEN ret = None
            ELSE /\ ret # None
                 /\ ret[1].studiengang_id = call.args[1]
                 /\ ret[1].belegung_id = Some(call.args[2])
                 /\ \E r \in hit :
                      /\ ret[1].modul_id = r.modul_id
                      /\ ret[1].ist_note = r.ist_note
                      /\ ret[1].anzahl_versuche = r.anzahl_versuche
                      /\ Iso(ret[1].ist_bestanden_am) = r.ist_bestanden_am

\* a completed update rewrote the row with b's composite key and no other
UpdateByCompositeKey ==
    (call'.op = "belegung.update" /\ exc' = "") =>
        LET b == call'.args[1]
            hit == KeyHit(modul_belegung, b.studiengang_id, b.belegung_id[1])
        IN  /\ Cardinality(modul_belegung') = Cardinality(modul_belegung)
            /\ \A r \in modul_belegung \ hit : r \in modul_belegung'
            /\ \A r \in hit : \E n \in modul_belegung' :
                 /\ n.belegung_id = r.belegung_id
                 /\ n.studiengang_id = r.studiengang_id
                 /\ n.modul_id = b.modul_id
                 /\ n.plan_semester_nr = b.plan_semester_nr
                 /\ n.ist_semester_nr = b.ist_semester_nr
                 /\ OptFromIso(n.soll_bestanden_am) = b.soll_bestanden_am
                 /\ OptFromIso(n.ist_bestanden_am) = b.ist_bestanden_am
                 /\ n.soll_note = b.soll_note
                 /\ n.ist_note = b.ist_note
                 /\ n.anzahl_versuche = b.anzahl_versuche

\* an update that raised changed no row
UpdateRefused ==
    (call'.op = "belegung.update" /\ exc' # "") => modul_belegung' = modul_belegung

\* a delete removed the row with the composite key and no other
DeleteByCompositeKey ==
    call'.op = "belegung.delete" =>
        modul_belegung' =
            modul_belegung \ KeyHit(modul_belegung, call'.args[1], call'.args[2])

\* C9: get, update and delete act only on the row matching both studiengang_id
\* and belegung_id: with the id of a row of another program get returns none
\* and update and delete change no row; when both match, update overwrites all
\* non-key fields of exactly that row and delete removes exactly that row.
C9_CompositeKey ==
    [][/\ GetByCompositeKey'
       /\ UpdateByCompositeKey
       /\ UpdateRefused
       /\ DeleteByCompositeKey]_vars

\* an update named the id of a row of another program, whose module differs
C9_Witness ==
    /\ call.op = "belegung.update"
    /\ exc = ""
    /\ \E r \in modul_belegung :
         /\ Some(r.belegung_id) = call.args[1].belegung_id
         /\ r.studiengang_id # call.args[1].studiengang_id
         /\ r.modul_id # call.args[1].modul_id

---------------------------------------------------------------------------
(* Claims about ModulRepository *)

UniqueTitel(tbl) == \A r1, r2 \in tbl : r1.titel = r2.titel => r1 = r2

\* C10: no two modul rows ever share a titel, so get_by_title(t) returns the
\* single module whose titel is t, or none when there is none.
C10_UniqueTitel ==
    /\ UniqueTitel(modul)
    /\ call.op = "modul.get_by_title" =>
         LET hit == {r \in modul : r.titel = call.args[1]}
         IN  IF hit = {} THEN ret = None
             ELSE \A r \in hit : ret = Some(ModulOfRow(r))

\* the second of two catalog modules was found by its titel
C10_Witness ==
    /\ call.op = "modul.get_by_title"
    /\ Cardinality(modul) = 2
    /\ ret # None
    /\ ret[1].modul_id = 2

---------------------------------------------------------------------------
(* Claims about the list and time series queries *)

MinOf2(a, b) == IF a <= b THEN a ELSE b

\* the catalog row of a module
ModulOf(modul_id) == CHOOSE m \in modul : m.modul_id = modul_id

\* C11: list_latest(p, limit) returns rows of program p only, in strictly
\* descending belegung_id order, exactly min(limit, number of enrollments of p)
\* of them, these being the enrollments of p with the highest belegung_ids,
\* each with the titel and ects of its module.
C11_ListLatest ==
    call.op = "belegung.list_latest" =>
        LET own == BelegungenOf(call.args[1])
            shown == {ret[i].belegung_id : i \in 1..Len(ret)}
        IN  /\ Len(ret) = MinOf2(call.args[2], Cardinality(own))
            /\ \A i, j \in 1..Len(ret) : i < j => ret[i].belegung_id > ret[j].belegung_id
            /\ \A i \in 1..Len(ret) : \E r \in own :
                 /\ r.belegung_id = ret[i].belegung_id
                 /\ r.modul_id = ret[i].modul_id
                 /\ ret[i].modul_titel = ModulOf(r.modul_id).titel
                 /\ ret[i].ects = ModulOf(r.modul_id).ects
                 /\ ret[i].ist_note = r.ist_note
            /\ \A r \in own : r.belegung_id \notin shown =>
                 \A k \in shown : r.belegung_id < k

\* with limit 1 only the newer of two enrollments of the program was listed
C11_Witness ==
    /\ call.op = "belegung.list_latest"
    /\ call.args[2] = 1
    /\ Cardinality(BelegungenOf(call.args[1])) = 2
    /\ Len(ret) = 1
    /\ ret[1].belegung_id = 2

\* date a is before date b in the calendar, or the same day
CalendarLeq(a, b) == Ordinal(a) <= Ordinal(b)

\* C12: plot_completions(p) returns one row for each enrollment of p with a
\* non-null ist_bestanden_am and none for any other; the rows ascend by
\* ist_bestanden_am in calendar order, and rows of the same day by belegung_id.
C12_PlotCompletions ==
    call.op = "belegung.plot_completions" =>
        LET done == {r \in BelegungenOf(call.args[1]) : r.ist_bestanden_am # None}
            Day(r) == Ordinal(FromIsoFormat(r.ist_bestanden_am[1]))
            \* the place of a row among the completed rows of the program
            Place(r) == 1 + Cardinality({o \in done :
                              \/ Day(o) < Day(r)
                              \/ Day(o) = Day(r) /\ o.belegung_id < r.belegung_id})
        IN  /\ Len(ret) = Cardinality(done)
            /\ \A r \in done :
                 /\ ret[Place(r)].ist_bestanden_am = r.ist_bestanden_am
                 /\ ret[Place(r)].ects = ModulOf(r.modul_id).ects
                 /\ ret[Place(r)].ist_note = r.ist_note

\* two enrollments completed on the same day came back in belegung_id order,
\* the 10-ects module (the older row) before the 5-ects module
C12_Witness ==
    /\ call.op = "belegung.plot_completions"
    /\ Len(ret) = 2
    /\ ret[1].ist_bestanden_am = ret[2].ist_bestanden_am
    /\ ret[1].ects = 10
    /\ ret[2].ects = 5

---------------------------------------------------------------------------
(* Claims about validation *)

\* the text is a notation of the calendar day d that C13 names
NotationOf(d, t) == t \in {IsoFormat(d), DotShort(d), DotLong(d)}

\* parse_date trims, reads the empty text as no value, and otherwise returns
\* what the first accepting pattern yields or fails with a ValidationError
ParseDateByPatterns ==
    call.op = "validation.parse_date" =>
        LET t == Strip(call.args[1])
        IN  /\ t = <<>> => ret = None /\ exc = ""
            /\ t # <<>> /\ Accepting(t) = {} => exc = "ValidationError"
            /\ t # <<>> /\ Accepting(t) # {} =>
                 /\ exc = ""
                 /\ \E k \in Accepting(t) :
                      /\ ret = Strptime(t, DateFormats[k])
                      /\ \A o \in Accepting(t) : k <= o
            \* a DD.MM.YYYY input is never accepted by the DD.MM.YY pattern
            /\ 3 \in Accepting(t) => 2 \notin Accepting(t)

\* C13 as stated: parse_date trims its input, yields no value for the empty
\* text, otherwise the date of the first of YYYY-MM-DD, DD.MM.YY, DD.MM.YYYY
\* that matches the whole input, and fails when none does; the ISO, DD.MM.YY
\* and DD.MM.YYYY notations of one calendar day all yield that same date.
C13_ParseDate_Stated ==
    /\ ParseDateByPatterns
    /\ call.op = "validation.parse_date" =>
         \A d \in Days :
            DateValid(d.year, d.month, d.day) /\ NotationOf(d, Strip(call.args[1]))
               => ret = Some(d) /\ exc = ""

\* C13, amended: as stated, but the DD.MM.YY notation yields the same date as
\* the other two only for days of the years 1969 to 2068; a two-digit year
\* yy is read as 19yy from 69 on and as 20yy up to 68.
C13_ParseDate ==
    /\ ParseDateByPatterns
    /\ call.op = "validation.parse_date" =>
         \A d \in Days :
            LET t == Strip(call.args[1])
            IN  DateValid(d.year, d.month, d.day) =>
                  /\ t \in {IsoFormat(d), DotLong(d)} => ret = Some(d) /\ exc = ""
                  /\ t = DotShort(d) /\ d.year \in 1969..2068 => ret = Some(d) /\ exc = ""
                  /\ t = DotShort(d) =>
                       ret = Some(Date(Century(d.year % 100), d.month, d.day))

\* "29.02.24", the short notation of a leap day, was read as 2024-02-29
C13_Witness ==
    /\ call.op = "validation.parse_date"
    /\ call.args[1] = DotShort(Date(2024, 2, 29))
    /\ ret = Some(Date(2024, 2, 29))

\* a <= b as the claim means it: both are numbers, or infinities, in that order
FloatLeq(a, b) ==
    /\ a.kind # "nan" /\ b.kind # "nan"
    /\ ~FloatLess(b, a)

\* C14: for every input text, parse_float either raises a validation failure
\* or returns a number v with min_value <= v <= max_value for each bound that
\* is given; every text float() does not read and every value outside a given
\* bound raises, and a decimal comma is read like a decimal point.
C14_ParseFloat ==
    call.op = "validation.parse_float" =>
        LET text == call.args[1]
            min_value == call.args[2]
            max_value == call.args[3]
            v == FloatOf(ReplaceComma(Strip(text)))
        IN  /\ exc = "" =>
                 /\ min_value # None => FloatLeq(min_value[1], ret)
                 /\ max_value # None => FloatLeq(ret, max_value[1])
            /\ exc \in {"", "ValidationError"}
            /\ v = None => exc = "ValidationError"
            /\ v # None /\ min_value # None /\ FloatLess(v[1], min_value[1])
                 => exc = "ValidationError"
            /\ v # None /\ max_value # None /\ FloatLess(max_value[1], v[1])
                 => exc = "ValidationError"
            /\ text = <<51, 44, 53>> /\ exc = "" => ret = Num(35, 1)

---------------------------------------------------------------------------
(* Claims about commits *)

\* the repository methods that write
Mutators ==
    {"student.upsert", "studiengang.create", "studiengang.update", "modul.create",
     "modul.update_by_id", "belegung.create", "belegung.update", "belegung.delete"}

\* the read-only repository methods
Readers ==
    {"studiengang.get_latest_for_student", "modul.get_by_id", "modul.get_by_title",
     "modul.list_all", "modul.get_total_ects", "belegung.get", "belegung.list_latest",
     "belegung.sum_ects_completed", "belegung.avg_grade_weighted",
     "belegung.last_completion_date", "belegung.plot_latest_per_module",
     "belegung.plot_completions"}

\* how often commit was called
Commits(l) == Cardinality({i \in 1..Len(l) : l[i] = "commit"})

\* C15: every mutating repository method whose write statement was executed
\* (it was reached and the engine did not refuse it) issued exactly one commit,
\* directly after that statement and before any further statement or the
\* return; a refused or unreached statement is followed by no commit; the
\* read-only query methods execute their statement and never commit.
C15_CommitAfterWrite ==
    /\ call.op \in Mutators /\ log # <<>> /\ exc # "IntegrityError" =>
         /\ Len(log) >= 2
         /\ log[1] = "execute"
         /\ log[2] = "commit"
         /\ Commits(log) = 1
    /\ call.op \in Mutators /\ (log = <<>> \/ exc = "IntegrityError") => Commits(log) = 0
    /\ call.op \in Readers => log = <<"execute">>
    /\ call.op \in Mutators \cup Readers \cup {"init"}

\* an upsert that had to look the student up again did so after its commit
C15_Witness ==
    /\ call.op = "student.upsert"
    /\ log = <<"execute", "commit", "execute">>
    /\ exc = ""

---------------------------------------------------------------------------
(* Claims about program isolation and the create/get round trip *)

\* what the six program-scoped queries answer for program p
Answers(p) ==
    [sum_ects_completed |-> SumEctsCompletedValue(p),
     avg_grade_weighted |-> AvgGradeWeightedValue(p),
     last_completion_date |-> LastCompletionDateValue(p),
     list_latest |-> [limit \in Limits |-> ListLatestValue(p, limit)],
     plot_latest_per_module |-> PlotLatestPerModuleValue(p),
     plot_completions |-> PlotCompletionsValue(p)]

\* C16: program isolation. Whenever a step leaves the store as it was except
\* for modul_belegung rows whose studiengang_id is not p, each of
\* sum_ects_completed, avg_grade_weighted, last_completion_date, list_latest,
\* plot_latest_per_module and plot_completions answers for p after the step
\* what it answered before. (The answers are functions of the tables, so only
\* steps that change modul_belegung need the comparison.)
C16_ProgramIsolation ==
    [][\A p \in StudiengangIds :
          (/\ modul_belegung' # modul_belegung
           /\ BelegungenOf(p)' = BelegungenOf(p)
           /\ UNCHANGED <<student, studiengang, modul>>)
             => Answers(p)' = Answers(p)]_vars

\* program 1 was asked for its last completion and has none, while program 2
\* holds a completed enrollment
C16_Witness ==
    /\ call.op = "belegung.last_completion_date"
    /\ call.args = <<1>>
    /\ ret = None
    /\ BelegungenOf(1) # {}
    /\ \E r \in BelegungenOf(2) : r.ist_bestanden_am # None

\* ids of the enrollment rows
BelegungIdsOf(tbl) == {r.belegung_id : r \in tbl}

\* C17: create/get round trip. A create(b) that returns adds exactly one row,
\* returns an id k that no enrollment row had immediately before the call and
\* leaves every row that existed before unchanged; a get(b.studiengang_id, k)
\* made right after returns a record equal to b in every field, dates and
\* absent optional values included, with belegung_id = k.
C17_CreateGetRoundTrip ==
    [][/\ call'.op = "belegung.create" /\ exc' = "" =>
            /\ ret' \notin BelegungIdsOf(modul_belegung)
            /\ modul_belegung \subseteq modul_belegung'
            /\ Cardinality(modul_belegung') = Cardinality(modul_belegung) + 1
            /\ \E r \in modul_belegung' \ modul_belegung : r.belegung_id = ret'
            /\ UNCHANGED <<student, studiengang, modul>>
       /\ (/\ call.op = "belegung.create" /\ exc = ""
           /\ call'.op = "belegung.get"
           /\ call'.args = <<call.args[1].studiengang_id, ret>>) =>
            ret' = Some([call.args[1] EXCEPT !.belegung_id = Some(ret)])
      ]_vars

\* the second enrollment of a program was read back with both of its dates,
\* which differ, and without a target grade
C17_Witness ==
    /\ call.op = "belegung.get"
    /\ call.args[2] = 2
    /\ ret # None
    /\ ret[1].belegung_id = Some(2)
    /\ ret[1].soll_bestanden_am = Some(Date(2024, 3, 1))
    /\ ret[1].ist_bestanden_am = Some(Date(2024, 2, 28))
    /\ ret[1].soll_note = None

=============================================================================
